---- MODULE Spec2Model ----
(***************************************************************************)
(* ForeCast360: the Dashboard's location / weather aggregation workflow    *)
(* (pages/Dashboard.tsx) and the App's auth-gated routing (App.tsx).       *)
(*                                                                         *)
(* JavaScript values are modelled as follows.                              *)
(*   - T | null | undefined : a tagged record, see Null, Undefined, Some   *)
(*   - text the code inspects character by character (condition labels,   *)
(*     the search query, coordinate strings, formatted clock times):       *)
(*     a sequence of one-character strings                                 *)
(*   - other text (messages, place names): a TLA+ string; "" is falsy      *)
(*   - temperatures and wind speeds: tenths; coordinates: 1/10000 degree   *)
(*   - instants: milliseconds since the epoch                              *)
(***************************************************************************)
EXTENDS Integers, Sequences, FiniteSets, TLC

-----------------------------------------------------------------------------
(* Bounds of the model                                                      *)

\* user-started aggregation cycles (search submits, map clicks) per page view
MaxCycles == 1
\* auth-state events (sign-in / sign-out) the identity provider produces
MaxAuthEvents == 3

-----------------------------------------------------------------------------
(* Option values                                                            *)

Null == [tag |-> "null"]
Undefined == [tag |-> "undefined"]
Some(v) == [tag |-> "some", v |-> v]
IsSome(o) == o.tag = "some"
\* null and undefined are falsy; so are 0 and ""
Nullish(o) == o.tag # "some"
Val(o) == o.v

-----------------------------------------------------------------------------
(* Text helpers                                                             *)

UpperChars == <<"A","B","C","D","E","F","G","H","I","J","K","L","M",
                "N","O","P","Q","R","S","T","U","V","W","X","Y","Z">>
LowerChars == <<"a","b","c","d","e","f","g","h","i","j","k","l","m",
                "n","o","p","q","r","s","t","u","v","w","x","y","z">>

\* String.prototype.toLowerCase, one character
ToLowerChar(c) ==
  IF \E i \in 1..Len(UpperChars) : UpperChars[i] = c
    THEN LowerChars[CHOOSE i \in 1..Len(UpperChars) : UpperChars[i] = c]
    ELSE c

\* String.prototype.toLowerCase
ToLowerCase(s) == [i \in 1..Len(s) |-> ToLowerChar(s[i])]

IsSpace(c) == c \in {" ", "\t", "\n"}

RECURSIVE TrimStart(_)
TrimStart(s) ==
  IF s = <<>> THEN <<>>
  ELSE IF IsSpace(Head(s)) THEN TrimStart(Tail(s)) ELSE s

RECURSIVE TrimEnd(_)
TrimEnd(s) ==
  IF s = <<>> THEN <<>>
  ELSE IF IsSpace(s[Len(s)]) THEN TrimEnd(SubSeq(s, 1, Len(s) - 1)) ELSE s

\* String.prototype.trim
Trim(s) == TrimEnd(TrimStart(s))

DigitChars == <<"0","1","2","3","4","5","6","7","8","9">>
IsDigit(c) == \E i \in 1..10 : DigitChars[i] = c
DigitVal(c) == (CHOOSE i \in 1..10 : DigitChars[i] = c) - 1
DigitChar(n) == DigitChars[n + 1]

\* decimal digits of a natural number
RECURSIVE NatChars(_)
NatChars(n) == IF n < 10 THEN <<DigitChar(n)>>
               ELSE NatChars(n \div 10) \o <<DigitChar(n % 10)>>

\* two digits, zero padded
Pad2(n) == <<DigitChar(n \div 10), DigitChar(n % 10)>>

\* Math.round on a value given in tenths: floor(x + 0.5)
MathRound(tenths) == (tenths + 5) \div 10

-----------------------------------------------------------------------------
(* Dates: new Date(..), Date.prototype.toISOString, date-fns format         *)
(* Instants are milliseconds since the epoch and stay inside January 1970, *)
(* the range a 32-bit integer covers; the page's time zone is UTC.         *)

MsPerSecond == 1000
MsPerMinute == 60 * MsPerSecond
MsPerHour == 60 * MsPerMinute
MsPerDay == 24 * MsPerHour

Pad3(n) == <<DigitChar(n \div 100), DigitChar((n \div 10) % 10), DigitChar(n % 10)>>

\* Date.prototype.toISOString: "1970-01-DDTHH:mm:ss.sssZ"
ToISOString(ms) ==
  <<"1","9","7","0","-","0","1","-">> \o Pad2((ms \div MsPerDay) + 1) \o <<"T">>
    \o Pad2((ms % MsPerDay) \div MsPerHour) \o <<":">>
    \o Pad2((ms % MsPerHour) \div MsPerMinute) \o <<":">>
    \o Pad2((ms % MsPerMinute) \div MsPerSecond) \o <<".">>
    \o Pad3(ms % MsPerSecond) \o <<"Z">>

Num2(s, i) == DigitVal(s[i]) * 10 + DigitVal(s[i + 1])
Num3(s, i) == DigitVal(s[i]) * 100 + DigitVal(s[i + 1]) * 10 + DigitVal(s[i + 2])

\* new Date(isoString): the instant, or Null for an Invalid Date
DateParse(s) ==
  IF /\ Len(s) = 24
     /\ SubSeq(s, 1, 8) = <<"1","9","7","0","-","0","1","-">>
     /\ s[11] = "T" /\ s[14] = ":" /\ s[17] = ":" /\ s[20] = "." /\ s[24] = "Z"
     /\ \A i \in {9, 10, 12, 13, 15, 16, 18, 19, 21, 22, 23} : IsDigit(s[i])
     /\ Num2(s, 9) \in 1..31 /\ Num2(s, 12) < 24 /\ Num2(s, 15) < 60 /\ Num2(s, 18) < 60
    THEN Some((Num2(s, 9) - 1) * MsPerDay + Num2(s, 12) * MsPerHour
              + Num2(s, 15) * MsPerMinute + Num2(s, 18) * MsPerSecond + Num3(s, 21))
    ELSE Null

Hour24(ms) == (ms % MsPerDay) \div MsPerHour
Hour12(ms) == IF Hour24(ms) % 12 = 0 THEN 12 ELSE Hour24(ms) % 12
AmPm(ms) == IF Hour24(ms) < 12 THEN <<"A","M">> ELSE <<"P","M">>

\* format(date, "h:mm a")
FormatHMMA(ms) ==
  NatChars(Hour12(ms)) \o <<":">> \o Pad2((ms % MsPerHour) \div MsPerMinute)
    \o <<" ">> \o AmPm(ms)

\* format(date, "h a")
FormatHA(ms) == NatChars(Hour12(ms)) \o <<" ">> \o AmPm(ms)

\* useState("--:-- --")
SunPlaceholder == <<"-","-",":","-","-"," ","-","-">>

-----------------------------------------------------------------------------
(* parseFloat on a coordinate string, in 1/10000 degree                     *)

RECURSIVE DigitsPrefix(_)
DigitsPrefix(s) ==
  IF s = <<>> \/ ~IsDigit(Head(s)) THEN <<>>
  ELSE <<Head(s)>> \o DigitsPrefix(Tail(s))

RECURSIVE DigitsValue(_)
DigitsValue(s) ==
  IF s = <<>> THEN 0
  ELSE DigitsValue(SubSeq(s, 1, Len(s) - 1)) * 10 + DigitVal(s[Len(s)])

\* the fraction digits, cut or zero-filled to four places
Frac4(s) == DigitsValue(SubSeq(s \o <<"0","0","0","0">>, 1, 4))

UnsignedFloat(s) ==
  LET ip == DigitsPrefix(s)
      rest == SubSeq(s, Len(ip) + 1, Len(s))
      fp == IF rest # <<>> /\ Head(rest) = "." THEN DigitsPrefix(Tail(rest)) ELSE <<>>
  IN DigitsValue(ip) * 10000 + Frac4(fp)

ParseFloat(s) ==
  LET t == TrimStart(s)
  IN IF t # <<>> /\ Head(t) = "-" THEN 0 - UnsignedFloat(Tail(t))
     ELSE IF t # <<>> /\ Head(t) = "+" THEN UnsignedFloat(Tail(t))
     ELSE UnsignedFloat(t)

-----------------------------------------------------------------------------
(* getWeatherIcon                                                           *)

Sun == "Sun"
CloudRain == "CloudRain"
Cloud == "Cloud"

\* variant: the label is compared as it arrives, without toLowerCase()
getWeatherIconCaseSensitive(condition) ==
  CASE condition = <<"c","l","e","a","r">> -> Sun
    [] condition = <<"r","a","i","n">> -> CloudRain
    [] condition = <<"c","l","o","u","d","s">> -> Cloud
    [] condition = <<"t","h","u","n","d","e","r","s","t","o","r","m">> -> CloudRain
    [] OTHER -> Cloud

\* switch (condition.toLowerCase()) { case 'clear': ... default: ... }
getWeatherIcon(condition) ==
  LET c == ToLowerCase(condition)
  IN CASE c = <<"c","l","e","a","r">> -> Sun
       [] c = <<"r","a","i","n">> -> CloudRain
       [] c = <<"c","l","o","u","d","s">> -> Cloud
       [] c = <<"t","h","u","n","d","e","r","s","t","o","r","m">> -> CloudRain
       [] OTHER -> Cloud

-----------------------------------------------------------------------------
(* fetchPrediction: the synthetic history sent to the prediction endpoint   *)

SeqLen == 144
LastOffset == 143
StepMinutes == 10

\* variant: the offsets are counted from 144, the last sample is 10 minutes old
WeatherSampleShifted(now, currentWeather, i) ==
  [ Date_Time |-> ToISOString(now - (SeqLen - i) * StepMinutes * 60 * 1000),
    p |-> Val(currentWeather.main).pressure,
    T |-> Val(currentWeather.main).temp,
    rh |-> Val(currentWeather.main).humidity,
    wv |-> Val(currentWeather.wind).speed,
    Tdew |-> Null, VPmax |-> Null, VPact |-> Null, VPdef |-> Null ]

\* sample i of Array(144).fill(0).map((_, i) => ...), i = 0..143
WeatherSample(now, currentWeather, i) ==
  [ Date_Time |-> ToISOString(now - (LastOffset - i) * StepMinutes * 60 * 1000),
    p |-> Val(currentWeather.main).pressure,
    T |-> Val(currentWeather.main).temp,
    rh |-> Val(currentWeather.main).humidity,
    wv |-> Val(currentWeather.wind).speed,
    Tdew |-> Null, VPmax |-> Null, VPact |-> Null, VPdef |-> Null ]

WeatherSequence(now, currentWeather) ==
  [i \in 0..(SeqLen - 1) |-> WeatherSample(now, currentWeather, i)]

-----------------------------------------------------------------------------
(* The external services                                                    *)
(* A fetch either rejects (NetFail), or resolves with a response whose     *)
(* body is not JSON (BadJson, response.json() rejects) or is JSON (Json). *)
(* ok is response.ok, i.e. a 2xx status.                                   *)

NetFail == [kind |-> "netfail", ok |-> FALSE, body |-> Undefined]
BadJson(ok) == [kind |-> "badjson", ok |-> ok, body |-> Undefined]
Json(ok, body) == [kind |-> "json", ok |-> ok, body |-> Some(body)]

Paris == <<488566, 23522>>
Sydney == <<-338688, 1512093>>
\* fetchAllWeatherData(38.9072, -77.0369)
WashingtonDC == <<389072, -770369>>

\* positions the geolocation provider reports, places the user clicks on the map
GeoCoords == {Paris}
MapCoords == {Sydney}

RainLabel == <<"R","a","i","n">>
ClearLabel == <<"C","l","e","a","r">>
CloudsLabel == <<"C","l","o","u","d","s">>
SnowLabel == <<"S","n","o","w">>
\* useState: condition: 'Loading...'
LoadingLabel == <<"L","o","a","d","i","n","g",".",".",".">>

\* nominatim reverse: the address of a coordinate
Address(c) ==
  CASE c = Paris -> [city |-> "Paris", town |-> "", village |-> "", county |-> "",
                     state |-> "Ile-de-France"]
    [] c = Sydney -> [city |-> "", town |-> "", village |-> "", county |-> "Cumberland",
                      state |-> "New South Wales"]
    [] OTHER -> [city |-> "", town |-> "", village |-> "", county |-> "", state |-> ""]

ReverseResponses(c) ==
  { NetFail, BadJson(TRUE), Json(FALSE, [address |-> Undefined]),
    Json(TRUE, [address |-> Some(Address(c))]) }

\* openweathermap /weather: current conditions at a coordinate
WeatherBody(c) ==
  CASE c = Paris ->
         [main |-> Some([temp |-> 204, pressure |-> 1013, humidity |-> 50]),
          wind |-> Some([speed |-> 30, deg |-> 180]),
          weather |-> <<[main |-> RainLabel]>>,
          clouds |-> Some(75), rain |-> Some(12)]
    [] c = Sydney ->
         [main |-> Some([temp |-> 255, pressure |-> 1008, humidity |-> 65]),
          wind |-> Some([speed |-> 52, deg |-> 90]),
          weather |-> <<[main |-> ClearLabel]>>,
          clouds |-> Some(0), rain |-> Undefined]
    [] OTHER ->
         [main |-> Some([temp |-> 0 - 15, pressure |-> 1020, humidity |-> 40]),
          wind |-> Some([speed |-> 21, deg |-> 270]),
          weather |-> <<[main |-> CloudsLabel]>>,
          clouds |-> Undefined, rain |-> Undefined]

\* an error document such as {"cod": 401, "message": ...}
WeatherErrorBody ==
  [main |-> Undefined, wind |-> Undefined, weather |-> <<>>,
   clouds |-> Undefined, rain |-> Undefined]

WeatherResponses(c) ==
  { NetFail, BadJson(TRUE), Json(FALSE, WeatherErrorBody), Json(TRUE, WeatherBody(c)),
    Json(TRUE, [WeatherBody(c) EXCEPT !.weather = <<>>]) }

\* sunrise-sunset.org: ISO instants, or a status other than "OK"
SunBody(c) ==
  CASE c = Paris ->
         [status |-> "OK",
          results |-> Some([sunrise |-> ToISOString(9 * MsPerDay + 5 * MsPerHour + 12 * MsPerMinute),
                            sunset |-> ToISOString(9 * MsPerDay + 19 * MsPerHour + 48 * MsPerMinute)])]
    [] c = Sydney ->
         [status |-> "OK",
          results |-> Some([sunrise |-> ToISOString(8 * MsPerDay + 20 * MsPerHour + 5 * MsPerMinute),
                            sunset |-> ToISOString(9 * MsPerDay + 9 * MsPerHour + 30 * MsPerMinute)])]
    [] OTHER ->
         [status |-> "OK",
          results |-> Some([sunrise |-> ToISOString(9 * MsPerDay + 12 * MsPerHour),
                            sunset |-> ToISOString(9 * MsPerDay + 23 * MsPerHour + 59 * MsPerMinute)])]

\* a results object whose sunset is not a date
SunBodyBadSunset(c) ==
  [SunBody(c) EXCEPT !.results = Some([Val(@) EXCEPT !.sunset = <<>>])]

SunResponses(c) ==
  { NetFail, BadJson(TRUE), Json(TRUE, [status |-> "INVALID_REQUEST", results |-> Undefined]),
    Json(TRUE, SunBody(c)), Json(TRUE, SunBodyBadSunset(c)) }

\* openweathermap /forecast?cnt=6: dt in seconds
ForecastBody(c) ==
  CASE c = Paris ->
         [list |-> Some(<<[dt |-> 9 * 86400 + 15 * 3600, main |-> [temp |-> 196],
                           weather |-> <<[main |-> RainLabel]>>],
                          [dt |-> 9 * 86400 + 18 * 3600, main |-> [temp |-> 175],
                           weather |-> <<[main |-> SnowLabel]>>]>>)]
    [] c = Sydney ->
         [list |-> Some(<<[dt |-> 9 * 86400, main |-> [temp |-> 248],
                           weather |-> <<[main |-> ClearLabel]>>]>>)]
    [] OTHER ->
         [list |-> Some(<<[dt |-> 9 * 86400 + 12 * 3600, main |-> [temp |-> 0 - 24],
                           weather |-> <<[main |-> CloudsLabel]>>]>>)]

ForecastResponses(c) ==
  { NetFail, BadJson(TRUE), Json(FALSE, [list |-> Undefined]), Json(TRUE, ForecastBody(c)) }

\* the prediction endpoint, a black box: here it answers from the last sample
PredictResponses(body) ==
  { NetFail, BadJson(TRUE), BadJson(FALSE),
    Json(FALSE, [predicted_temperature |-> Undefined, confidence |-> Undefined]),
    Json(TRUE, [predicted_temperature |-> Undefined, confidence |-> Undefined]),
    Json(TRUE, [predicted_temperature |-> Some(body.weather_data[LastOffset].T + 7),
                confidence |-> Some(87)]) }

SydneyQuery == <<"S","y","d","n","e","y">>
NowhereQuery == <<"N","o","w","h","e","r","e","9">>
BlankQuery == <<" "," "," ">>
Queries == {<<>>, BlankQuery, SydneyQuery, NowhereQuery}

\* nominatim search: the ranked matches of a query
ForwardResults(q) ==
  CASE Trim(q) = SydneyQuery ->
         <<[lat |-> <<"-","3","3",".","8","6","8","8">>,
            lon |-> <<"1","5","1",".","2","0","9","3">>,
            display_name |-> "Sydney, New South Wales, Australia"]>>
    [] OTHER -> <<>>

SearchResponses(q) == { NetFail, BadJson(TRUE), Json(TRUE, ForwardResults(q)) }

\* getCurrentPosition: a position, or a GeolocationPositionError
\* (1 PERMISSION_DENIED, 2 POSITION_UNAVAILABLE)
GeoResults ==
  { [kind |-> "position", coords |-> c, code |-> 0] : c \in GeoCoords }
    \cup { [kind |-> "error", coords |-> <<0, 0>>, code |-> k] : k \in {1, 2} }

\* the instants new Date() may yield when fetchPrediction builds its request
Nows == {10 * MsPerDay + 13 * MsPerHour + 7 * MsPerMinute + 42 * MsPerSecond + 123,
         10 * MsPerDay + 23 * MsPerHour + 55 * MsPerMinute + 999}

-----------------------------------------------------------------------------
(* Exceptions                                                               *)
(* An exception thrown inside an async function is handled by that         *)
(* function if its body is wrapped in try/catch; otherwise the function's  *)
(* promise rejects and the exception reaches the caller awaiting it.       *)

\* variant: fetchSunTimes without its try/catch
CaughtButSunTimes(fn) ==
  fn \in {"fetchPrediction", "fetchInitialData", "fetchAllWeatherData", "fetchLocation",
          "fetchWeather", "fetchHourlyForecast", "handleSearch", "handleMapClick"}

\* the functions of the Dashboard whose body is wrapped in try/catch
Caught(fn) ==
  fn \in {"fetchPrediction", "fetchInitialData", "fetchAllWeatherData", "fetchLocation",
          "fetchWeather", "fetchSunTimes", "fetchHourlyForecast", "handleSearch",
          "handleMapClick"}

\* the functions of a call chain (innermost first) whose promise rejects when
\* the innermost throws
RECURSIVE Uncaught(_)
Uncaught(chain) ==
  IF chain = <<>> \/ Caught(Head(chain)) THEN {}
  ELSE {Head(chain)} \cup Uncaught(Tail(chain))

\* the function of the chain whose catch block runs, "" if none
RECURSIVE Catcher(_)
Catcher(chain) ==
  IF chain = <<>> THEN ""
  ELSE IF Caught(Head(chain)) THEN Head(chain) ELSE Catcher(Tail(chain))

\* the handler behind each trigger of a cycle
HandlerName(k) ==
  CASE k = "mount" -> "fetchInitialData"
    [] k = "search" -> "handleSearch"
    [] OTHER -> "handleMapClick"

-----------------------------------------------------------------------------
(* The Dashboard's React state (ViewState) and the lookups                  *)
(* A lookup is a function of the view and the response it received; it     *)
(* yields the new view, whether its promise rejects, and whether it failed *)
(* (it threw, or the service reported a status other than "OK").           *)

NullPrediction == [temp |-> Null, condition |-> Null, confidence |-> Null]

\* the useState defaults
InitialView ==
  [ location |-> "Loading...",
    searchQuery |-> <<>>,
    sunrise |-> SunPlaceholder,
    sunset |-> SunPlaceholder,
    lat |-> Null,
    lon |-> Null,
    weatherData |-> [temperature |-> Null, condition |-> LoadingLabel,
                     details |-> [humidity |-> Null, windSpeed |-> Null, pressure |-> Null,
                                  windDeg |-> Null, cloudiness |-> Null,
                                  precipitation |-> Null]],
    hourlyForecast |-> <<>>,
    prediction |-> NullPrediction,
    loading |-> TRUE,
    error |-> Null,
    predictionError |-> Null,
    isPredicting |-> FALSE,
    showMap |-> FALSE,
    mapCenter |-> <<200000, 770000>>,
    selectedLocation |-> Null ]

\* a || b || ... over strings: the first that is not ""
FirstNonEmpty(names, fallback) ==
  IF \E i \in 1..Len(names) : names[i] # ""
    THEN names[CHOOSE i \in 1..Len(names) :
                 names[i] # "" /\ \A j \in 1..(i - 1) : names[j] = ""]
    ELSE fallback

\* variant: the state is preferred to the city
LocationNameStateFirst(address) ==
  FirstNonEmpty(<<address.state, address.city, address.town, address.village,
                  address.county>>, "Unknown Location")

\* data.address.city || ... || data.address.state || "Unknown Location"
LocationName(address) ==
  FirstNonEmpty(<<address.city, address.town, address.village, address.county,
                  address.state>>, "Unknown Location")

\* the try block of fetchLocation
fetchLocationTry(v, latitude, longitude, resp) ==
  IF resp.kind # "json" \/ Nullish(Val(resp.body).address)
    THEN [threw |-> TRUE, view |-> v]
    ELSE LET locationName == LocationName(Val(Val(resp.body).address))
         IN [threw |-> FALSE,
             view |-> [v EXCEPT !.location = locationName,
                                !.selectedLocation =
                                  Some([latitude |-> latitude, longitude |-> longitude,
                                        name |-> locationName])]]

fetchLocation(v, latitude, longitude, resp) ==
  LET t == fetchLocationTry(v, latitude, longitude, resp)
  IN IF t.threw /\ Caught("fetchLocation")
       THEN [rejects |-> FALSE, failed |-> TRUE,
             view |-> [t.view EXCEPT !.location = "Location Unavailable"]]
       ELSE [rejects |-> t.threw, failed |-> t.threw, view |-> t.view]

\* x || 0 for a number that may be undefined
OrZero(o) == IF Nullish(o) THEN 0 ELSE Val(o)

\* the try block of fetchWeather
fetchWeatherTry(v, resp) ==
  IF \/ resp.kind # "json"
     \/ Nullish(Val(resp.body).main)
     \/ Val(resp.body).weather = <<>>
     \/ Nullish(Val(resp.body).wind)
    THEN [threw |-> TRUE, view |-> v]
    ELSE LET data == Val(resp.body)
         IN [threw |-> FALSE,
             view |-> [v EXCEPT !.weatherData =
                         [temperature |-> Some(MathRound(Val(data.main).temp)),
                          condition |-> data.weather[1].main,
                          details |-> [humidity |-> Some(Val(data.main).humidity),
                                       windSpeed |-> Some(Val(data.wind).speed),
                                       pressure |-> Some(Val(data.main).pressure),
                                       windDeg |-> Some(Val(data.wind).deg),
                                       cloudiness |-> Some(OrZero(data.clouds)),
                                       precipitation |-> Some(OrZero(data.rain))]]]]

fetchWeather(v, resp) ==
  LET t == fetchWeatherTry(v, resp)
  IN IF t.threw /\ Caught("fetchWeather")
       THEN [rejects |-> FALSE, failed |-> TRUE,
             view |-> [t.view EXCEPT !.error = Some("Failed to load weather data")]]
       ELSE [rejects |-> t.threw, failed |-> t.threw, view |-> t.view]

\* the try block of fetchSunTimes: format throws on an Invalid Date, and
\* setSunrise has run by the time the sunset is formatted
fetchSunTimesTry(v, resp) ==
  IF resp.kind # "json" THEN [threw |-> TRUE, ok |-> FALSE, view |-> v]
  ELSE IF Val(resp.body).status # "OK" THEN [threw |-> FALSE, ok |-> FALSE, view |-> v]
  ELSE IF Nullish(Val(resp.body).results) THEN [threw |-> TRUE, ok |-> FALSE, view |-> v]
  ELSE LET sunriseTime == DateParse(Val(Val(resp.body).results).sunrise)
           sunsetTime == DateParse(Val(Val(resp.body).results).sunset)
       IN IF Nullish(sunriseTime) THEN [threw |-> TRUE, ok |-> FALSE, view |-> v]
          ELSE IF Nullish(sunsetTime)
            THEN [threw |-> TRUE, ok |-> FALSE,
                  view |-> [v EXCEPT !.sunrise = FormatHMMA(Val(sunriseTime))]]
            ELSE [threw |-> FALSE, ok |-> TRUE,
                  view |-> [v EXCEPT !.sunrise = FormatHMMA(Val(sunriseTime)),
                                     !.sunset = FormatHMMA(Val(sunsetTime))]]

fetchSunTimes(v, resp) ==
  LET t == fetchSunTimesTry(v, resp)
  IN [rejects |-> t.threw /\ ~Caught("fetchSunTimes"), failed |-> ~t.ok, view |-> t.view]

ForecastEntry(item) ==
  [time |-> FormatHA(item.dt * 1000),
   temp |-> MathRound(item.main.temp),
   icon |-> getWeatherIcon(item.weather[1].main)]

\* the try block of fetchHourlyForecast
fetchHourlyForecastTry(v, resp) ==
  IF \/ resp.kind # "json"
     \/ Nullish(Val(resp.body).list)
     \/ \E i \in 1..Len(Val(Val(resp.body).list)) : Val(Val(resp.body).list)[i].weather = <<>>
    THEN [threw |-> TRUE, view |-> v]
    ELSE LET list == Val(Val(resp.body).list)
         IN [threw |-> FALSE,
             view |-> [v EXCEPT !.hourlyForecast =
                         [i \in 1..Len(list) |-> ForecastEntry(list[i])]]]

fetchHourlyForecast(v, resp) ==
  LET t == fetchHourlyForecastTry(v, resp)
  IN [rejects |-> t.threw /\ ~Caught("fetchHourlyForecast"), failed |-> t.threw,
      view |-> t.view]

-----------------------------------------------------------------------------
(* State                                                                    *)

VARIABLES
  view,           \* the Dashboard's React state
  pc,             \* where the running handler is suspended; "idle" when none runs
  kind,           \* the trigger of the current or last cycle: mount, search, map
  coord,          \* the coordinate of the current or last cycle, Null before it is known
  inflight,       \* the requests in flight
  currentWeather, \* fetchPrediction's local: the payload it fetched
  geo,            \* what the geolocation provider answered on mount
  outcome,        \* per lookup of this cycle: none, pending, ok, fail
  posted,         \* a request to the prediction endpoint was made in this cycle
  rejected,       \* the async functions whose promise rejected
  cycles,         \* user-started cycles so far
  event,          \* the last step: "submit" for a search submit, "noResults" for a
                  \* forward-geocode answer with an empty list, else "step"
  user,           \* App: the user the last auth callback delivered
  appLoading,     \* App: no auth callback has been delivered yet
  path,           \* App: the current location of the router
  authLog,        \* the auth states the identity provider has announced, in order
  delivered,      \* how many of them App's onAuthStateChanged callback has received
  iconInput,      \* two condition labels handed to getWeatherIcon
  iconOutput,     \* the icons it returned for them, <<>> before it is applied
  seqInput,       \* an instant and a current-conditions payload, Null before one is picked
  seqOutput       \* the weather sequence built from them, Null before it is built

dashVars == <<view, pc, kind, coord, inflight, currentWeather, geo, outcome, posted,
              rejected, cycles, event>>
appVars == <<user, appLoading, path, authLog, delivered>>
iconVars == <<iconInput, iconOutput>>
seqVars == <<seqInput, seqOutput>>
otherVars == <<appVars, iconVars, seqVars>>
vars == <<dashVars, appVars, iconVars, seqVars>>

Lookups == {"place", "current", "sun", "forecast", "prediction"}

NoOutcome == [l \in Lookups |-> "none"]

\* a request in flight: the service and the coordinate or query asked about;
\* for the POST to the prediction endpoint also the instant new Date() gave
\* and the payload its body is built from (see PredictionBody)
Req(svc, c) == [svc |-> svc, coord |-> c, q |-> <<>>, at |-> 0, payload |-> Null]

Requests(svc) == {r \in inflight : r.svc = svc}

Settled(failed) == IF failed THEN "fail" ELSE "ok"

\* which of the three views the Dashboard renders
Rendered(v) ==
  IF v.loading THEN "loading"
  ELSE IF ~Nullish(v.error) THEN "error"
  ELSE "main"

\* variant: the finally block leaves the map picker open
HandlerFinallyKeepMap(v, k) == [v EXCEPT !.loading = FALSE]

\* the finally block of a handler
HandlerFinally(v, k) ==
  [v EXCEPT !.loading = FALSE, !.showMap = IF k = "map" THEN FALSE ELSE @]

\* the catch block of a handler; a GeolocationPositionError is no Error
HandlerCatch(v, k) ==
  [v EXCEPT !.error = CASE k = "mount" -> Some("Initialization error")
                        [] k = "search" -> Some("Search failed")
                        [] OTHER -> Some("Failed to update location")]

\* an exception reaches the functions of chain (innermost first, the handler
\* last): the handler's catch runs if no function before it catches, and its
\* finally runs in any case
AfterThrow(v, k, chain) ==
  [view |-> HandlerFinally(IF Catcher(chain) = HandlerName(k) THEN HandlerCatch(v, k) ELSE v,
                           k),
   rejected |-> Uncaught(chain)]

\* variant: the handler waits for the current-conditions lookup only
AllPendingWeatherOnly(reqs) == \E r \in reqs : r.svc = "weather"

\* variant: the handler goes on as soon as one of the three has settled
AllPendingRace(reqs) == FALSE

\* Promise.all([fetchWeather, fetchSunTimes, fetchHourlyForecast]) is still pending
AllPending(reqs) == \E r \in reqs : r.svc \in {"weather", "sun", "forecast"}

\* variant: the forecast is requested for a fixed coordinate
FetchAllRequestsFixedForecast(c) ==
  {Req("weather", c), Req("sun", c), Req("forecast", WashingtonDC)}

\* fetchAllWeatherData up to its first await: the three lookups are issued
FetchAllRequests(c) == {Req("weather", c), Req("sun", c), Req("forecast", c)}

\* fetchPrediction up to its first await
fetchPredictionStart(v) == [v EXCEPT !.isPredicting = TRUE, !.predictionError = Null]

\* variant: the catch block records the error and keeps the prediction
fetchPredictionCatchKeep(v) ==
  [v EXCEPT !.predictionError = Some("AI prediction unavailable")]

\* the catch and finally blocks of fetchPrediction
fetchPredictionCatch(v) ==
  [v EXCEPT !.predictionError = Some("AI prediction unavailable"),
            !.prediction = NullPrediction]

\* variant: the indicator is not reset when fetchPrediction ends
fetchPredictionFinallyStuck(v) == v

fetchPredictionFinally(v) == [v EXCEPT !.isPredicting = FALSE]

\* an exception inside fetchPrediction's try block
ThrowInPrediction(v, k) ==
  IF Caught("fetchPrediction")
    THEN [view |-> HandlerFinally(fetchPredictionFinally(fetchPredictionCatch(v)), k),
          rejected |-> {}]
    ELSE LET a == AfterThrow(fetchPredictionFinally(v), k,
                             <<"fetchAllWeatherData", HandlerName(k)>>)
         IN [view |-> a.view, rejected |-> a.rejected \cup {"fetchPrediction"}]

\* fetchPrediction after its weather fetch: does building the request throw
PredictionWeatherThrows(resp) ==
  \/ resp.kind # "json"
  \/ Nullish(Val(resp.body).main)
  \/ Nullish(Val(resp.body).wind)

PredictionRequest(c, now, cw) ==
  [svc |-> "predict", coord |-> c, q |-> <<>>, at |-> now, payload |-> Some(cw)]

\* body: JSON.stringify({ weather_data: weatherSequence })
PredictionBody(req) == [weather_data |-> WeatherSequence(req.at, Val(req.payload))]

\* currentWeather.weather[0]?.main || null
FirstCondition(cw) ==
  IF cw.weather = <<>> \/ cw.weather[1].main = <<>> THEN Null ELSE Some(cw.weather[1].main)

\* if (!response.ok) throw ...; await response.json()
PredictionFailed(resp) == resp.kind # "json" \/ ~resp.ok

\* setPrediction({ temp, confidence, condition })
SetPrediction(v, result, cw) ==
  [v EXCEPT !.prediction = [temp |-> result.predicted_temperature,
                            confidence |-> result.confidence,
                            condition |-> FirstCondition(cw)]]

\* variant: a search without a match also clears what the view shows
SearchNotFoundReset(v) ==
  [v EXCEPT !.error = Some("Location not found"),
            !.weatherData = InitialView.weatherData,
            !.hourlyForecast = InitialView.hourlyForecast]

\* setError("Location not found")
SearchNotFound(v) == [v EXCEPT !.error = Some("Location not found")]

\* the labels getWeatherIcon is applied to
IconLabels ==
  { RainLabel, <<"r","a","i","n">>, <<"R","A","I","N">>, <<"r","A","i","N">>,
    ClearLabel, <<"c","l","e","a","r">>, <<"C","L","E","A","R">>,
    CloudsLabel, <<"c","l","o","u","d","s">>,
    <<"T","h","u","n","d","e","r","s","t","o","r","m">>,
    <<"t","h","u","n","d","e","r","s","t","o","r","m">>,
    SnowLabel, <<"M","i","s","t">>, <<"r","a","i","n","y">>, LoadingLabel, <<>> }

Init ==
  /\ view = InitialView
  /\ pc = "start"
  /\ kind = "mount"
  /\ coord = Null
  /\ inflight = {}
  /\ currentWeather = Null
  /\ geo = "pending"
  /\ outcome = NoOutcome
  /\ posted = FALSE
  /\ rejected = {}
  /\ cycles = 0
  /\ event = "step"
  /\ user = Null
  /\ appLoading = TRUE
  /\ path = "/"
  /\ authLog = <<>>
  /\ delivered = 0
  /\ iconInput = <<LoadingLabel, LoadingLabel>>
  /\ iconOutput = <<>>
  /\ seqInput = Null
  /\ seqOutput = Null

-----------------------------------------------------------------------------
(* Dashboard: the mount effect (fetchInitialData)                           *)

\* useEffect(() => { fetchInitialData() }, []) up to its first await;
\* supported is the truthiness of navigator.geolocation
MountEffect(supported) ==
  /\ pc = "start"
  /\ IF supported
       THEN /\ view' = [view EXCEPT !.loading = TRUE]
            /\ inflight' = inflight \cup {Req("geolocation", <<0, 0>>)}
            /\ pc' = "geo"
            /\ coord' = Null
            /\ outcome' = NoOutcome
            /\ geo' = "pending"
       ELSE /\ view' = [view EXCEPT !.loading = TRUE,
                                    !.location = "Geolocation Not Supported"]
            /\ inflight' = inflight \cup FetchAllRequests(WashingtonDC)
            /\ pc' = "all"
            /\ coord' = Some(WashingtonDC)
            /\ outcome' = [NoOutcome EXCEPT !["current"] = "pending", !["sun"] = "pending",
                                            !["forecast"] = "pending"]
            /\ geo' = "unsupported"
  /\ kind' = "mount"
  /\ posted' = FALSE
  /\ event' = "step"
  /\ UNCHANGED <<currentWeather, rejected, cycles, otherVars>>

\* getCurrentPosition calls resolve or reject
GeolocationSettles(r) ==
  /\ pc = "geo"
  /\ Requests("geolocation") # {}
  /\ IF r.kind = "position"
       THEN /\ view' = [view EXCEPT !.lat = Some(r.coords[1]), !.lon = Some(r.coords[2]),
                                    !.mapCenter = r.coords]
            /\ inflight' = (inflight \ Requests("geolocation")) \cup {Req("reverse", r.coords)}
            /\ pc' = "loc"
            /\ coord' = Some(r.coords)
            /\ outcome' = [outcome EXCEPT !["place"] = "pending"]
            /\ geo' = "position"
            /\ UNCHANGED rejected
       ELSE LET a == AfterThrow(view, kind, <<HandlerName(kind)>>)
            IN /\ view' = a.view
               /\ rejected' = rejected \cup a.rejected
               /\ inflight' = inflight \ Requests("geolocation")
               /\ pc' = "idle"
               /\ geo' = "error"
               /\ UNCHANGED <<coord, outcome>>
  /\ event' = "step"
  /\ UNCHANGED <<kind, currentWeather, posted, cycles, otherVars>>

-----------------------------------------------------------------------------
(* Dashboard: the lookups settle                                            *)

\* the reverse-geocode request settles and the handler awaiting fetchLocation
\* goes on: into its catch if fetchLocation rejected, else into fetchAllWeatherData
LocationSettles ==
  \E req \in Requests("reverse") : \E resp \in ReverseResponses(req.coord) :
    LET r == fetchLocation(view, req.coord[1], req.coord[2], resp)
        a == AfterThrow(r.view, kind, <<HandlerName(kind)>>)
    IN /\ pc = "loc"
       /\ IF r.rejects
            THEN /\ view' = a.view
                 /\ inflight' = inflight \ {req}
                 /\ pc' = "idle"
                 /\ outcome' = [outcome EXCEPT !["place"] = "fail"]
                 /\ rejected' = rejected \cup {"fetchLocation"} \cup a.rejected
            ELSE /\ view' = r.view
                 /\ inflight' = (inflight \ {req}) \cup FetchAllRequests(req.coord)
                 /\ pc' = "all"
                 /\ outcome' = [outcome EXCEPT !["place"] = Settled(r.failed),
                                               !["current"] = "pending",
                                               !["sun"] = "pending",
                                               !["forecast"] = "pending"]
                 /\ UNCHANGED rejected
       /\ event' = "step"
       /\ UNCHANGED <<kind, coord, currentWeather, geo, posted, cycles, otherVars>>

\* one of the three lookups of Promise.all has settled with result r.
\* Promise.all rejects on the first rejection, which fetchAllWeatherData's
\* catch takes, and the handler goes on to its finally; it resolves when the
\* last of the three has resolved, and fetchPrediction starts.  A lookup that
\* settles after the handler has gone on only writes its slice.
JoinAll(req, r, lookup, fn) ==
  LET rest == inflight \ {req}
      a == AfterThrow(r.view, kind, <<"fetchAllWeatherData", HandlerName(kind)>>)
  IN /\ outcome' = [outcome EXCEPT ![lookup] = Settled(r.failed),
                      !["prediction"] = IF pc = "all" /\ ~r.rejects /\ ~AllPending(rest)
                                          THEN "pending" ELSE @]
     /\ IF pc # "all"
          THEN /\ view' = r.view
               /\ inflight' = rest
               /\ pc' = pc
               /\ rejected' = IF r.rejects THEN rejected \cup {fn} ELSE rejected
        ELSE IF r.rejects
          THEN /\ view' = a.view
               /\ inflight' = rest
               /\ pc' = "idle"
               /\ rejected' = rejected \cup {fn} \cup a.rejected
        ELSE IF AllPending(rest)
          THEN /\ view' = r.view
               /\ inflight' = rest
               /\ pc' = "all"
               /\ UNCHANGED rejected
          ELSE /\ view' = fetchPredictionStart(r.view)
               /\ inflight' = rest \cup {Req("predWeather", req.coord)}
               /\ pc' = "predW"
               /\ UNCHANGED rejected
     /\ event' = "step"
     /\ UNCHANGED <<kind, coord, currentWeather, geo, posted, cycles, otherVars>>

WeatherSettles ==
  \E req \in Requests("weather") : \E resp \in WeatherResponses(req.coord) :
    JoinAll(req, fetchWeather(view, resp), "current", "fetchWeather")

SunTimesSettles ==
  \E req \in Requests("sun") : \E resp \in SunResponses(req.coord) :
    JoinAll(req, fetchSunTimes(view, resp), "sun", "fetchSunTimes")

ForecastSettles ==
  \E req \in Requests("forecast") : \E resp \in ForecastResponses(req.coord) :
    JoinAll(req, fetchHourlyForecast(view, resp), "forecast", "fetchHourlyForecast")

\* fetchPrediction's own current-conditions request settles: it builds and
\* posts the sequence, or throws and the handler finishes
PredictionWeatherSettles ==
  \E req \in Requests("predWeather") : \E resp \in WeatherResponses(req.coord) :
   \E now \in Nows :
    LET t == ThrowInPrediction(view, kind)
    IN /\ pc = "predW"
       /\ IF PredictionWeatherThrows(resp)
            THEN /\ view' = t.view
                 /\ rejected' = rejected \cup t.rejected
                 /\ inflight' = inflight \ {req}
                 /\ pc' = "idle"
                 /\ outcome' = [outcome EXCEPT !["prediction"] = "fail"]
                 /\ UNCHANGED <<currentWeather, posted>>
            ELSE /\ inflight' = (inflight \ {req})
                      \cup {PredictionRequest(req.coord, now, Val(resp.body))}
                 /\ currentWeather' = resp.body
                 /\ pc' = "predP"
                 /\ posted' = TRUE
                 /\ UNCHANGED <<view, outcome, rejected>>
       /\ event' = "step"
       /\ UNCHANGED <<kind, coord, geo, cycles, otherVars>>

\* the POST to the prediction endpoint settles; fetchPrediction, then
\* fetchAllWeatherData, then the handler finish
PredictionSettles ==
  \E req \in Requests("predict") : \E resp \in PredictResponses(PredictionBody(req)) :
    LET t == ThrowInPrediction(view, kind)
    IN /\ pc = "predP"
       /\ IF PredictionFailed(resp)
            THEN /\ view' = t.view
                 /\ rejected' = rejected \cup t.rejected
            ELSE /\ view' = HandlerFinally(
                              fetchPredictionFinally(
                                SetPrediction(view, Val(resp.body), Val(currentWeather))),
                              kind)
                 /\ UNCHANGED rejected
       /\ inflight' = inflight \ {req}
       /\ pc' = "idle"
       /\ outcome' = [outcome EXCEPT !["prediction"] = Settled(PredictionFailed(resp))]
       /\ event' = "step"
       /\ UNCHANGED <<kind, coord, currentWeather, geo, posted, cycles, otherVars>>

-----------------------------------------------------------------------------
(* Dashboard: the user's actions, offered by the main view only             *)

\* onChange={(e) => setSearchQuery(e.target.value)}
TypeQuery(q) ==
  /\ pc = "idle"
  /\ Rendered(view) = "main"
  /\ q # view.searchQuery
  /\ view' = [view EXCEPT !.searchQuery = q]
  /\ event' = "step"
  /\ UNCHANGED <<pc, kind, coord, inflight, currentWeather, geo, outcome, posted,
                 rejected, cycles, otherVars>>

\* variant: the query is tested without trimming it
QueryIsBlankNoTrim(q) == q = <<>>

\* if (!searchQuery.trim()) return
QueryIsBlank(q) == Trim(q) = <<>>

\* variant: a search does not raise the loading flag
HandleSearchNoSpinner ==
  /\ pc = "idle"
  /\ Rendered(view) = "main"
  /\ IF QueryIsBlank(view.searchQuery)
       THEN UNCHANGED <<view, pc, kind, coord, inflight, outcome, posted, cycles>>
       ELSE /\ cycles < MaxCycles
            /\ view' = view
            /\ inflight' = inflight
                 \cup {[Req("search", <<0, 0>>) EXCEPT !.q = view.searchQuery]}
            /\ pc' = "geocode"
            /\ kind' = "search"
            /\ coord' = Null
            /\ outcome' = NoOutcome
            /\ posted' = FALSE
            /\ cycles' = cycles + 1
  /\ event' = "submit"
  /\ UNCHANGED <<currentWeather, geo, rejected, otherVars>>

\* handleSearch up to its first await
HandleSearch ==
  /\ pc = "idle"
  /\ Rendered(view) = "main"
  /\ IF QueryIsBlank(view.searchQuery)
       THEN UNCHANGED <<view, pc, kind, coord, inflight, outcome, posted, cycles>>
       ELSE /\ cycles < MaxCycles
            /\ view' = [view EXCEPT !.loading = TRUE]
            /\ inflight' = inflight
                 \cup {[Req("search", <<0, 0>>) EXCEPT !.q = view.searchQuery]}
            /\ pc' = "geocode"
            /\ kind' = "search"
            /\ coord' = Null
            /\ outcome' = NoOutcome
            /\ posted' = FALSE
            /\ cycles' = cycles + 1
  /\ event' = "submit"
  /\ UNCHANGED <<currentWeather, geo, rejected, otherVars>>

\* the forward-geocode request settles
SearchSettles ==
  \E req \in Requests("search") : \E resp \in SearchResponses(req.q) :
    LET a == AfterThrow(view, kind, <<HandlerName(kind)>>)
    IN /\ pc = "geocode"
       /\ IF resp.kind # "json"
            THEN /\ view' = a.view
                 /\ rejected' = rejected \cup a.rejected
                 /\ inflight' = inflight \ {req}
                 /\ pc' = "idle"
                 /\ UNCHANGED <<coord, outcome>>
          ELSE IF Len(Val(resp.body)) > 0
            THEN LET first == Val(resp.body)[1]
                     latitude == ParseFloat(first.lat)
                     longitude == ParseFloat(first.lon)
                 IN /\ view' = [view EXCEPT !.lat = Some(latitude),
                                            !.lon = Some(longitude),
                                            !.mapCenter = <<latitude, longitude>>,
                                            !.location = first.display_name]
                    /\ inflight' = (inflight \ {req})
                         \cup FetchAllRequests(<<latitude, longitude>>)
                    /\ pc' = "all"
                    /\ coord' = Some(<<latitude, longitude>>)
                    /\ outcome' = [outcome EXCEPT !["current"] = "pending",
                                     !["sun"] = "pending", !["forecast"] = "pending"]
                    /\ UNCHANGED rejected
            ELSE /\ view' = HandlerFinally(SearchNotFound(view), kind)
                 /\ inflight' = inflight \ {req}
                 /\ pc' = "idle"
                 /\ UNCHANGED <<coord, outcome, rejected>>
       /\ event' = IF resp.kind = "json" /\ Val(resp.body) = <<>> THEN "noResults" ELSE "step"
       /\ UNCHANGED <<kind, currentWeather, geo, posted, cycles, otherVars>>

\* toggleMap
ToggleMap ==
  /\ pc = "idle"
  /\ Rendered(view) = "main"
  /\ view' = [view EXCEPT !.showMap = ~@]
  /\ event' = "step"
  /\ UNCHANGED <<pc, kind, coord, inflight, currentWeather, geo, outcome, posted,
                 rejected, cycles, otherVars>>

\* variant: a map click does not raise the loading flag
HandleMapClickNoSpinner(latlng) ==
  /\ pc = "idle"
  /\ Rendered(view) = "main"
  /\ view.showMap
  /\ cycles < MaxCycles
  /\ view' = [view EXCEPT !.lat = Some(latlng[1]), !.lon = Some(latlng[2]),
                          !.mapCenter = latlng]
  /\ inflight' = inflight \cup {Req("reverse", latlng)}
  /\ pc' = "loc"
  /\ kind' = "map"
  /\ coord' = Some(latlng)
  /\ outcome' = [NoOutcome EXCEPT !["place"] = "pending"]
  /\ posted' = FALSE
  /\ cycles' = cycles + 1
  /\ event' = "step"
  /\ UNCHANGED <<currentWeather, geo, rejected, otherVars>>

\* variant: the click issues the place-name lookup and the three lookups of
\* fetchAllWeatherData together
HandleMapClickAllAtOnce(latlng) ==
  /\ pc = "idle"
  /\ Rendered(view) = "main"
  /\ view.showMap
  /\ cycles < MaxCycles
  /\ view' = [view EXCEPT !.lat = Some(latlng[1]), !.lon = Some(latlng[2]),
                          !.mapCenter = latlng, !.loading = TRUE]
  /\ inflight' = inflight \cup {Req("reverse", latlng)} \cup FetchAllRequests(latlng)
  /\ pc' = "loc"
  /\ kind' = "map"
  /\ coord' = Some(latlng)
  /\ outcome' = [NoOutcome EXCEPT !["place"] = "pending"]
  /\ posted' = FALSE
  /\ cycles' = cycles + 1
  /\ event' = "step"
  /\ UNCHANGED <<currentWeather, geo, rejected, otherVars>>

\* handleMapClick up to its first await; the map is part of the main view
\* and is rendered while showMap holds
HandleMapClick(latlng) ==
  /\ pc = "idle"
  /\ Rendered(view) = "main"
  /\ view.showMap
  /\ cycles < MaxCycles
  /\ view' = [view EXCEPT !.lat = Some(latlng[1]), !.lon = Some(latlng[2]),
                          !.mapCenter = latlng, !.loading = TRUE]
  /\ inflight' = inflight \cup {Req("reverse", latlng)}
  /\ pc' = "loc"
  /\ kind' = "map"
  /\ coord' = Some(latlng)
  /\ outcome' = [NoOutcome EXCEPT !["place"] = "pending"]
  /\ posted' = FALSE
  /\ cycles' = cycles + 1
  /\ event' = "step"
  /\ UNCHANGED <<currentWeather, geo, rejected, otherVars>>

Next ==
  \/ \E supported \in BOOLEAN : MountEffect(supported)
  \/ \E r \in GeoResults : GeolocationSettles(r)
  \/ LocationSettles
  \/ WeatherSettles
  \/ SunTimesSettles
  \/ ForecastSettles
  \/ PredictionWeatherSettles
  \/ PredictionSettles
  \/ \E q \in Queries : TypeQuery(q)
  \/ HandleSearch
  \/ SearchSettles
  \/ ToggleMap
  \/ \E latlng \in MapCoords : HandleMapClick(latlng)

Spec == Init /\ [][Next]_vars

\* the steps that need no user: the mount effect runs, a request settles
Settles ==
  \/ \E supported \in BOOLEAN : MountEffect(supported)
  \/ \E r \in GeoResults : GeolocationSettles(r)
  \/ LocationSettles
  \/ WeatherSettles
  \/ SunTimesSettles
  \/ ForecastSettles
  \/ PredictionWeatherSettles
  \/ PredictionSettles
  \/ SearchSettles

\* while an effect can run or a request is in flight, one of them eventually
\* runs or settles
Fairness == WF_vars(Settles)

SpecFair == Spec /\ Fairness

-----------------------------------------------------------------------------
(* App: the auth-gated routes                                               *)

Users == {"alice", "bob"}

\* the locations the router is sent to: the three routes, the targets the
\* sign-in and logout handlers navigate to
Paths == {"/", "/auth", "/dashboard", "/Dashboard", "/login"}

\* <Routes>: the route a location matches (matching ignores letter case)
RouteOf(p) ==
  CASE p = "/" -> "home"
    [] p = "/auth" -> "auth"
    [] p \in {"/dashboard", "/Dashboard"} -> "dashboard"
    [] OTHER -> "none"

\* variant: the route is not gated
DashboardElementOpen(u) == "Dashboard"

\* element={user ? <Dashboard /> : <Auth />}
DashboardElement(u) == IF ~Nullish(u) THEN "Dashboard" ELSE "Auth"

\* what App renders
AppRendered(isLoading, u, p) ==
  IF isLoading THEN "Loading"
  ELSE CASE RouteOf(p) = "home" -> "Home"
         [] RouteOf(p) = "auth" -> "Auth"
         [] RouteOf(p) = "dashboard" -> DashboardElement(u)
         [] OTHER -> "NoMatch"

\* the identity provider's current user
AuthCurrent == IF authLog = <<>> THEN Null ELSE authLog[Len(authLog)]

\* the identity provider announces an auth state: the one it restores when
\* the page loads, then every sign-in and sign-out
AuthStateChanges(u) ==
  /\ Len(authLog) < MaxAuthEvents
  /\ authLog = <<>> \/ u # AuthCurrent
  /\ authLog # <<>> /\ ~Nullish(u) => Nullish(AuthCurrent)
  /\ authLog' = Append(authLog, u)
  /\ UNCHANGED <<user, appLoading, path, delivered, dashVars, iconVars, seqVars>>

\* onAuthStateChanged(auth, (currentUser) => { setUser(currentUser); setLoading(false) })
AuthCallback ==
  /\ delivered < Len(authLog)
  /\ user' = authLog[delivered + 1]
  /\ appLoading' = FALSE
  /\ delivered' = delivered + 1
  /\ UNCHANGED <<path, authLog, dashVars, iconVars, seqVars>>

\* the router's location changes
Navigate(p) ==
  /\ p # path
  /\ path' = p
  /\ UNCHANGED <<user, appLoading, authLog, delivered, dashVars, iconVars, seqVars>>

\* the sign-in and logout handlers of Home, Auth and Dashboard. Home and Auth
\* keep a user of their own, set by the same provider callbacks as App's and
\* read here from App's; signInWithPopup and signOut resolve (ok) or reject.

\* Home: signInWithGoogle, signInWithGitHub: setUser, setIsOpen(false), no
\* navigation; the catch block alerts or logs
HomeSignIn(u, ok) ==
  /\ AppRendered(appLoading, user, path) = "Home"
  /\ Nullish(user) /\ Nullish(AuthCurrent)
  /\ Len(authLog) < MaxAuthEvents
  /\ authLog' = IF ok THEN Append(authLog, Some(u)) ELSE authLog
  /\ UNCHANGED <<user, appLoading, path, delivered, dashVars, iconVars, seqVars>>

\* Home: handleLogout: signOut, setUser(null), navigate("/")
HomeHandleLogout(ok) ==
  /\ AppRendered(appLoading, user, path) = "Home"
  /\ ~Nullish(user) /\ ~Nullish(AuthCurrent)
  /\ Len(authLog) < MaxAuthEvents
  /\ authLog' = IF ok THEN Append(authLog, Null) ELSE authLog
  /\ path' = IF ok THEN "/" ELSE path
  /\ UNCHANGED <<user, appLoading, delivered, dashVars, iconVars, seqVars>>

\* Auth: signInWithGoogle, signInWithGitHub: setUser, navigate("/Dashboard")
AuthSignIn(u, ok) ==
  /\ AppRendered(appLoading, user, path) = "Auth"
  /\ Nullish(user) /\ Nullish(AuthCurrent)
  /\ Len(authLog) < MaxAuthEvents
  /\ authLog' = IF ok THEN Append(authLog, Some(u)) ELSE authLog
  /\ path' = IF ok THEN "/Dashboard" ELSE path
  /\ UNCHANGED <<user, appLoading, delivered, dashVars, iconVars, seqVars>>

\* Auth: handleLogout: signOut, setUser(null), navigate("/")
AuthHandleLogout(ok) ==
  /\ AppRendered(appLoading, user, path) = "Auth"
  /\ ~Nullish(user) /\ ~Nullish(AuthCurrent)
  /\ Len(authLog) < MaxAuthEvents
  /\ authLog' = IF ok THEN Append(authLog, Null) ELSE authLog
  /\ path' = IF ok THEN "/" ELSE path
  /\ UNCHANGED <<user, appLoading, delivered, dashVars, iconVars, seqVars>>

\* Dashboard: handleLogout: signOut, navigate("/login"); the catch block
\* sets error to "Logout failed". The button is offered by the Dashboard App
\* renders; the Dashboard's own cycles are left at their initial state here.
DashboardHandleLogout(ok) ==
  /\ AppRendered(appLoading, user, path) = "Dashboard"
  /\ ~Nullish(AuthCurrent)
  /\ Len(authLog) < MaxAuthEvents
  /\ authLog' = IF ok THEN Append(authLog, Null) ELSE authLog
  /\ path' = IF ok THEN "/login" ELSE path
  /\ view' = IF ok THEN view ELSE [view EXCEPT !.error = Some("Logout failed")]
  /\ UNCHANGED <<user, appLoading, delivered, pc, kind, coord, inflight, currentWeather,
                 geo, outcome, posted, rejected, cycles, event, iconVars, seqVars>>

NextApp ==
  \/ \E u \in {Null} \cup {Some(n) : n \in Users} : AuthStateChanges(u)
  \/ AuthCallback
  \/ \E p \in Paths : Navigate(p)
  \/ \E u \in Users, ok \in BOOLEAN : HomeSignIn(u, ok)
  \/ \E ok \in BOOLEAN : HomeHandleLogout(ok)
  \/ \E u \in Users, ok \in BOOLEAN : AuthSignIn(u, ok)
  \/ \E ok \in BOOLEAN : AuthHandleLogout(ok)
  \/ \E ok \in BOOLEAN : DashboardHandleLogout(ok)

SpecApp == Init /\ [][NextApp]_vars

-----------------------------------------------------------------------------
(* getWeatherIcon applied to pairs of condition labels                      *)

\* two forecast items arrive with the labels a and b
PickLabels(a, b) ==
  /\ iconInput' = <<a, b>>
  /\ iconOutput' = <<>>
  /\ UNCHANGED <<dashVars, appVars, seqVars>>

\* icon: getWeatherIcon(item.weather[0].main), for both items
RenderIcons ==
  /\ iconOutput = <<>>
  /\ iconOutput' = <<getWeatherIcon(iconInput[1]), getWeatherIcon(iconInput[2])>>
  /\ UNCHANGED <<iconInput, dashVars, appVars, seqVars>>

NextIcon ==
  \/ \E a \in IconLabels : \E b \in IconLabels : PickLabels(a, b)
  \/ RenderIcons

SpecIcon == Init /\ [][NextIcon]_vars

-----------------------------------------------------------------------------
(* fetchPrediction's weather sequence, for instants and payloads            *)

\* the instants new Date() is taken at: six hours of three days
SeqNows ==
  Nows \cup { d * MsPerDay + h * MsPerHour + 7 * MsPerMinute + 42 * MsPerSecond + 123 :
                d \in 10..12, h \in {0, 5, 9, 13, 18, 23} }

\* the payloads the current-conditions service answers with
SeqPayloads == { WeatherBody(c) : c \in {Paris, Sydney, WashingtonDC} }

\* const currentWeather = await weatherResponse.json(), at the instant now
PickSample(now, cw) ==
  /\ seqInput' = Some([at |-> now, payload |-> cw])
  /\ seqOutput' = Null
  /\ UNCHANGED <<dashVars, appVars, iconVars>>

\* const weatherSequence = Array(144).fill(0).map(...)
BuildSequence ==
  /\ seqInput # Null
  /\ seqOutput = Null
  /\ seqOutput' = Some(WeatherSequence(Val(seqInput).at, Val(seqInput).payload))
  /\ UNCHANGED <<seqInput, dashVars, appVars, iconVars>>

NextSeq ==
  \/ \E now \in SeqNows : \E cw \in SeqPayloads : PickSample(now, cw)
  \/ BuildSequence

SpecSeq == Init /\ [][NextSeq]_vars

-----------------------------------------------------------------------------
(* Properties                                                               *)

Chars3PM == <<"3"," ","P","M">>
Chars6PM == <<"6"," ","P","M">>
Chars12AM == <<"1","2"," ","A","M">>

\* C1: provided every request settles, every cycle (mount, search, map click)
\* ends with loading = false, and loading is never false while a request of
\* the cycle is still in flight.
C1_LoadingSettles ==
  /\ [](~view.loading => inflight = {})
  /\ view.loading ~> (~view.loading /\ pc = "idle")

\* a search cycle has run all five of its steps and finished
C1_Witness ==
  /\ kind = "search" /\ pc = "idle" /\ ~view.loading
  /\ outcome["current"] = "ok" /\ outcome["sun"] = "ok" /\ outcome["forecast"] = "ok"
  /\ outcome["prediction"] = "ok"

\* C2 (as claimed): in a cycle whose current-conditions lookup failed, no
\* request goes to the prediction endpoint and the prediction slice is the
\* absent sentinel.
C2_NoPredictionAfterFailedWeather ==
  outcome["current"] = "fail" => (~posted /\ view.prediction = NullPrediction)

\* what the services hold for a coordinate, written out
ExpectedPlace(c) == IF c = Paris THEN "Paris" ELSE "Cumberland"

ExpectedSunrise(c) ==
  IF c = Paris THEN <<"5",":","1","2"," ","A","M">> ELSE <<"8",":","0","5"," ","P","M">>

ExpectedSunset(c) ==
  IF c = Paris THEN <<"7",":","4","8"," ","P","M">> ELSE <<"9",":","3","0"," ","A","M">>

ExpectedForecast(c) ==
  IF c = Paris
    THEN <<[time |-> Chars3PM, temp |-> 20, icon |-> "CloudRain"],
           [time |-> Chars6PM, temp |-> 18, icon |-> "Cloud"]>>
    ELSE <<[time |-> Chars12AM, temp |-> 25, icon |-> "Sun"]>>

ExactlyOneOfThreeFailed ==
  /\ \A l \in {"place", "sun", "forecast"} : outcome[l] \in {"ok", "fail"}
  /\ Cardinality({l \in {"place", "sun", "forecast"} : outcome[l] = "fail"}) = 1

\* C3: when a cycle has completed and exactly one of the place-name,
\* sun-times and forecast lookups failed, the slices of the two that
\* succeeded hold what the services answer for the cycle's coordinate.
C3_FailureIsolation ==
  (pc = "idle" /\ ExactlyOneOfThreeFailed) =>
    /\ outcome["place"] = "ok" =>
         /\ view.location = ExpectedPlace(Val(coord))
         /\ view.selectedLocation =
              Some([latitude |-> Val(coord)[1], longitude |-> Val(coord)[2],
                    name |-> ExpectedPlace(Val(coord))])
    /\ outcome["sun"] = "ok" =>
         /\ view.sunrise = ExpectedSunrise(Val(coord))
         /\ view.sunset = ExpectedSunset(Val(coord))
    /\ outcome["forecast"] = "ok" => view.hourlyForecast = ExpectedForecast(Val(coord))

\* a map-click cycle for Sydney, after the mount cycle for Paris, in which
\* only the sun-times lookup failed
C3_Witness ==
  /\ pc = "idle" /\ kind = "map" /\ coord = Some(Sydney)
  /\ outcome["place"] = "ok" /\ outcome["sun"] = "fail" /\ outcome["forecast"] = "ok"
  /\ view.hourlyForecast = ExpectedForecast(Sydney)

AllSpaces(q) == \A i \in 1..Len(q) : q[i] = " "

\* C4: submitting a search whose query is empty or only spaces changes
\* nothing: no request is issued and every slice of the view is as before.
C4_BlankSearchIsNoOp ==
  [][(event' = "submit" /\ AllSpaces(view.searchQuery)) =>
       /\ view' = view
       /\ inflight' = inflight
       /\ <<pc, kind, coord, outcome, posted, cycles>>' = <<pc, kind, coord, outcome, posted, cycles>>
    ]_vars

\* a query of three spaces has been submitted from a populated main view
C4_Witness ==
  /\ event = "submit" /\ view.searchQuery = BlankQuery
  /\ pc = "idle" /\ inflight = {} /\ ~view.loading /\ Nullish(view.error)

\* the slices a search without a match must leave alone
KeptSlices(v) ==
  <<v.lat, v.lon, v.location, v.weatherData, v.sunrise, v.sunset, v.hourlyForecast,
    v.prediction>>

\* C5: when the geocoding service answers a non-blank query with an empty
\* list, the search sets error to "Location not found", issues none of the
\* five lookups, and leaves coordinate, place name, current conditions, sun
\* times, forecast and prediction as they were.
C5_LocationNotFound ==
  [][/\ (event' = "submit" /\ ~AllSpaces(view.searchQuery)) =>
          (KeptSlices(view') = KeptSlices(view) /\ view'.error = view.error)
     /\ (pc = "geocode" /\ event' = "noResults") =>
       /\ ~AllSpaces(view.searchQuery)
       /\ view'.error = Some("Location not found")
       /\ inflight' = {}
       /\ outcome' = NoOutcome /\ ~posted'
       /\ KeptSlices(view') = KeptSlices(view)
    ]_vars

\* the search for "Nowhere9" found nothing, after the mount cycle had
\* populated the view
C5_Witness ==
  /\ event = "noResults" /\ view.searchQuery = NowhereQuery
  /\ view.error = Some("Location not found")
  /\ view.location = "Paris" /\ view.hourlyForecast # <<>>

\* C6: the sequence built for the prediction request has exactly 144 samples
\* 0..143, each with the payload's pressure, temperature, humidity and wind
\* speed, and sample i is timestamped now - (143 - i) * 10 minutes: the
\* timestamps rise in steps of 10 minutes and the last one is now.
C6_PredictionSequence ==
  seqOutput # [tag |-> "null"] =>
    LET data == seqOutput.v
        now == seqInput.v.at
        cw == seqInput.v.payload
    IN /\ DOMAIN data = 0..143
       /\ Cardinality(DOMAIN data) = 144
       /\ \A i \in DOMAIN data :
            /\ data[i].p = cw.main.v.pressure
            /\ data[i].T = cw.main.v.temp
            /\ data[i].rh = cw.main.v.humidity
            /\ data[i].wv = cw.wind.v.speed
            /\ DateParse(data[i].Date_Time) = Some(now - (143 - i) * 600000)
       /\ \A i \in 1..143 :
            DateParse(data[i].Date_Time).v = DateParse(data[i - 1].Date_Time).v + 600000
       /\ DateParse(data[143].Date_Time) = Some(now)

\* the sequence was built at 13:07:42.123 on the 11th for Sydney's
\* conditions: its first samples are of the 10th
C6_Witness ==
  /\ seqInput = Some([at |-> 10 * 86400000 + 13 * 3600000 + 7 * 60000 + 42123,
                      payload |-> WeatherBody(Sydney)])
  /\ seqOutput # [tag |-> "null"]
  /\ seqOutput.v[0].Date_Time =
       <<"1","9","7","0","-","0","1","-","1","0","T","1","3",":","1","7",":","4","2",
         ".","1","2","3","Z">>
  /\ seqOutput.v[143].Date_Time =
       <<"1","9","7","0","-","0","1","-","1","1","T","1","3",":","0","7",":","4","2",
         ".","1","2","3","Z">>
  /\ seqOutput.v[143].T = 255

RainSpellings == {<<"R","a","i","n">>, <<"r","a","i","n">>, <<"R","A","I","N">>,
                  <<"r","A","i","N">>}
ClearSpellings == {<<"C","l","e","a","r">>, <<"c","l","e","a","r">>,
                   <<"C","L","E","A","R">>}
CloudsSpellings == {<<"C","l","o","u","d","s">>, <<"c","l","o","u","d","s">>}
ThunderSpellings == {<<"T","h","u","n","d","e","r","s","t","o","r","m">>,
                     <<"t","h","u","n","d","e","r","s","t","o","r","m">>}

\* the key the five-valued reading gives a label
ClaimedKey(l) ==
  CASE l \in ClearSpellings -> "Clear"
    [] l \in RainSpellings -> "Rain"
    [] l \in CloudsSpellings -> "Clouds"
    [] l \in ThunderSpellings -> "Thunderstorm"
    [] OTHER -> "Other"

\* C7 (as claimed): Clear, Rain, Clouds, Thunderstorm and Other are five
\* distinct results: two labels get the same icon exactly when they have the
\* same key.
C7_FiveDistinctKeys ==
  iconOutput # <<>> =>
    ((iconOutput[1] = iconOutput[2]) <=> (ClaimedKey(iconInput[1]) = ClaimedKey(iconInput[2])))

\* the icon each key is drawn with
IconOfKey(k) ==
  CASE k = "Clear" -> "Sun"
    [] k \in {"Rain", "Thunderstorm"} -> "CloudRain"
    [] OTHER -> "Cloud"

\* C7 (amended): "rain" in any letter case gets the rain icon, every label
\* outside {clear, rain, clouds, thunderstorm} gets the icon of clouds, and
\* the mapping has three results: thunderstorm shares the icon of rain, and
\* unrecognized labels share the icon of clouds.
C7_ThreeIcons ==
  iconOutput # <<>> =>
    /\ \A i \in 1..2 : iconOutput[i] = IconOfKey(ClaimedKey(iconInput[i]))
    /\ (iconOutput[1] = iconOutput[2]) <=>
         (IconOfKey(ClaimedKey(iconInput[1])) = IconOfKey(ClaimedKey(iconInput[2])))

\* "RAIN" and "Snow" have been rendered
C7_Witness ==
  /\ iconInput = <<(<<"R","A","I","N">>), (<<"S","n","o","w">>)>>
  /\ iconOutput = <<"CloudRain", "Cloud">>

\* what the router shows
Shown == AppRendered(appLoading, user, path)

\* C8: before the first auth-state callback the app renders no route; from
\* then on /dashboard renders the Dashboard when the last callback delivered
\* a user and the Auth view when it delivered null.
C8_DashboardGate ==
  /\ delivered = 0 => Shown = "Loading"
  /\ (delivered > 0 /\ path = "/dashboard") =>
       Shown = (IF authLog[delivered] = [tag |-> "null"] THEN "Auth" ELSE "Dashboard")
  /\ Shown = "Dashboard" => (delivered > 0 /\ authLog[delivered] # [tag |-> "null"])

\* at /dashboard after a restored session was signed out
C8_Witness ==
  /\ path = "/dashboard" /\ delivered = 2
  /\ authLog[1] # [tag |-> "null"] /\ authLog[2] = [tag |-> "null"]
  /\ Shown = "Auth"

\* C9: whatever the lookups' outcomes, none of the lookup functions, nor
\* fetchAllWeatherData, nor a handler, rejects.
C9_NothingEscapes ==
  \A fn \in {"fetchLocation", "fetchWeather", "fetchSunTimes", "fetchHourlyForecast",
             "fetchPrediction", "fetchAllWeatherData", "fetchInitialData",
             "handleSearch", "handleMapClick"} : fn \notin rejected

\* a map-click cycle in which all five lookups failed has finished
C9_Witness ==
  /\ kind = "map" /\ pc = "idle" /\ ~view.loading
  /\ \A l \in Lookups : outcome[l] = "fail"

\* C10 (as claimed): when the mount cycle has finished and geolocation was
\* denied, unavailable or unsupported, a cycle has been run for a fallback
\* coordinate and the view is not in the error state.
C10_GeolocationFallback ==
  (kind = "mount" /\ pc = "idle" /\ geo \in {"error", "unsupported"}) =>
    /\ coord # [tag |-> "null"]
    /\ outcome["current"] # "none"
    /\ view.error # Some("Initialization error")

\* C11: a map click runs the whole cycle (all five lookups settle), the map
\* picker stays open until the cycle has completed, and is closed when it
\* completes, whether the lookups succeeded or failed.
C11_MapClosesOnCompletion ==
  [][/\ (kind' = "map" /\ pc' # "idle") => view'.showMap
     /\ (kind = "map" /\ pc # "idle" /\ pc' = "idle") =>
          /\ ~view'.showMap
          /\ ~view'.loading
          /\ \A l \in {"place", "current", "sun", "forecast", "prediction"} :
               outcome'[l] \in {"ok", "fail"}
    ]_vars

\* a map-click cycle whose current-conditions and forecast lookups failed
\* has completed and the picker is closed
C11_Witness ==
  /\ kind = "map" /\ pc = "idle" /\ ~view.showMap /\ ~view.loading
  /\ outcome["place"] = "ok" /\ outcome["current"] = "fail" /\ outcome["forecast"] = "fail"
  /\ outcome["sun"] = "ok"

\* the services of the requests in flight
InFlightNow == {r.svc : r \in inflight}

C13_OnlyCurrentOrdersPrediction ==
  [][/\ {"predWeather", "predict"} \cap InFlightNow' # {} => "weather" \notin InFlightNow'
     /\ (pc = "all" /\ "weather" \in InFlightNow /\ "weather" \notin InFlightNow') =>
          "predWeather" \in InFlightNow'
    ]_vars

\* C13 (amended): the prediction lookup is issued only after the
\* current-conditions, sun-times and forecast lookups of the cycle have all
\* settled, by the step in which the last of the three settles, whichever
\* of them that is.
C13_PredictionAfterAllThree ==
  [][/\ {"predWeather", "predict"} \cap InFlightNow' # {} =>
          /\ InFlightNow' \cap {"weather", "sun", "forecast"} = {}
          /\ \A l \in {"current", "sun", "forecast"} : outcome'[l] \in {"ok", "fail"}
     /\ (pc = "all" /\ InFlightNow \cap {"weather", "sun", "forecast"} # {}
           /\ InFlightNow' \cap {"weather", "sun", "forecast"} = {}) =>
          "predWeather" \in InFlightNow'
     /\ ("predWeather" \in InFlightNow' /\ "predWeather" \notin InFlightNow) =>
          /\ pc = "all"
          /\ Cardinality(InFlightNow \cap {"weather", "sun", "forecast"}) = 1
    ]_vars

\* the prediction lookup of a search cycle is in flight after all three
\* settled, two of them with a failure
C13_Witness ==
  /\ kind = "search" /\ InFlightNow = {"predWeather"}
  /\ outcome["current"] = "fail" /\ outcome["sun"] = "ok" /\ outcome["forecast"] = "fail"
  /\ outcome["prediction"] = "pending"

\* C14 (as claimed): in every state that is not loading, the errored state
\* included, the view offers the search form and the map, so that the user
\* can start a new cycle.
C14_ReentryFromEveryState ==
  (pc = "idle" /\ ~view.loading) => Rendered(view) = "main"

\* C15 (as claimed): only the mount cycle shows the full-page loading
\* indicator: loading is never true in a cycle started by a search or a map
\* click.
C15_SpinnerOnFirstLoadOnly ==
  kind \in {"search", "map"} => ~view.loading

\* C15 (amended): every cycle shows the full-page loading indicator: a search
\* submit or a map click that starts a cycle sets loading to true, and it
\* stays true, with the loaded slices hidden behind the indicator, until the
\* cycle has completed.
C15_SpinnerOnEveryCycle ==
  [][/\ cycles' # cycles => (kind' \in {"search", "map"} /\ view'.loading)
     /\ (kind' \in {"search", "map"} /\ InFlightNow' # {}) =>
          (view'.loading /\ Rendered(view') = "loading")
     /\ (view.loading /\ ~view'.loading) => InFlightNow' = {}
    ]_vars

\* the lookups of a search cycle for Sydney are in flight; the view holds
\* Paris's conditions and forecast, and loading is true
C15_Witness ==
  /\ kind = "search" /\ view.loading /\ "weather" \in InFlightNow
  /\ view.weatherData.temperature = [tag |-> "some", v |-> 20]
  /\ view.hourlyForecast = ExpectedForecast(Paris)

\* the requests in flight that are lookups of a cycle
LookupsInFlight ==
  {r \in inflight : r.svc \in {"reverse", "weather", "sun", "forecast", "predWeather",
                               "predict"}}

\* C16 (as claimed): while the lookups of a cycle are in flight the view
\* accepts a location-changing action (the search form and the map are
\* rendered), so that a second cycle can start beside the first.
C16_ActionWhileInFlight ==
  LookupsInFlight # {} => Rendered(view) = "main"

\* C16 (amended): no location-changing action can arrive while a cycle is in
\* flight: whenever a request is in flight the view renders the loading
\* screen only, a cycle starts only when nothing is in flight, and every
\* lookup in flight is for the coordinate of the current cycle, so no stale
\* response can overwrite a newer slice.
C16_NoOverlappingCycles ==
  [][/\ inflight' # {} => (view'.loading /\ Rendered(view') = "loading")
     /\ Rendered(view') = "main" => (inflight' = {} /\ pc' = "idle")
     /\ cycles' # cycles => (inflight = {} /\ Rendered(view) = "main")
     /\ \A r \in LookupsInFlight' : coord' = [tag |-> "some", v |-> r.coord]
    ]_vars

\* a map-click cycle for Sydney is under way after the mount cycle for
\* Paris: only Sydney's lookups are in flight, behind the loading screen
C16_Witness ==
  /\ kind = "map" /\ cycles = 1 /\ view.location = "Cumberland"
  /\ {r.svc : r \in LookupsInFlight} = {"sun", "forecast"}
  /\ \A r \in LookupsInFlight : r.coord = Sydney
  /\ view.hourlyForecast = ExpectedForecast(Paris)
  /\ Rendered(view) = "loading"

\* C17 (as claimed): when a cycle started by a search or a map click has
\* completed, the slice of every lookup that failed in it is at its sentinel
\* (sun times "--:-- --", empty forecast, the initial weather record), not at
\* the value of the previous cycle.
C17_FailedSlicesAtSentinel ==
  (pc = "idle" /\ kind \in {"search", "map"} /\ outcome["current"] \in {"ok", "fail"}) =>
    /\ outcome["sun"] = "fail" =>
         /\ view.sunrise = <<"-","-",":","-","-"," ","-","-">>
         /\ view.sunset = <<"-","-",":","-","-"," ","-","-">>
    /\ outcome["forecast"] = "fail" => view.hourlyForecast = <<>>
    /\ outcome["current"] = "fail" =>
         /\ view.weatherData.temperature = [tag |-> "null"]
         /\ view.weatherData.condition = <<"L","o","a","d","i","n","g",".",".",".">>

\* C18 (as claimed): when the prediction request of a cycle has settled,
\* either it delivered a numeric predicted_temperature, or the outcome is a
\* failure local to the prediction slice: prediction is all null,
\* predictionError is "AI prediction unavailable" and isPredicting is false.
C18_PredictionFailureIsLocal ==
  (pc = "idle" /\ outcome["prediction"] \in {"ok", "fail"}) =>
    \/ /\ view.prediction.temp.tag = "some"
       /\ view.predictionError = [tag |-> "null"]
       /\ ~view.isPredicting
    \/ /\ view.prediction = [temp |-> [tag |-> "null"], condition |-> [tag |-> "null"],
                             confidence |-> [tag |-> "null"]]
       /\ view.predictionError = [tag |-> "some", v |-> "AI prediction unavailable"]
       /\ ~view.isPredicting

AbsentPrediction ==
  [temp |-> [tag |-> "null"], condition |-> [tag |-> "null"], confidence |-> [tag |-> "null"]]

\* C19 (as claimed): the prediction slice is absent whenever the prediction
\* lookup of the current cycle has not completed (a cycle is running, or
\* isPredicting is true) or has failed (predictionError is set).
C19_AbsentUntilCompleted ==
  (view.loading \/ view.isPredicting \/ view.predictionError # [tag |-> "null"]) =>
    view.prediction = AbsentPrediction

\* C19 (amended): the prediction slice is absent whenever predictionError is
\* set, and throughout the mount cycle until its prediction lookup settles.
\* It changes only in the step in which a prediction lookup settles, so a
\* later cycle holds the earlier cycle's prediction until then; isPredicting
\* is true only behind the loading screen.
C19_AbsentAfterFailure ==
  [][/\ view'.predictionError # [tag |-> "null"] => view'.prediction = AbsentPrediction
     /\ (kind' = "mount" /\ view'.loading) => view'.prediction = AbsentPrediction
     /\ view'.prediction # view.prediction =>
          /\ {"predWeather", "predict"} \cap InFlightNow # {}
          /\ {"predWeather", "predict"} \cap InFlightNow' = {}
     /\ view'.isPredicting => view'.loading
    ]_vars

\* the prediction lookup of a map-click cycle is pending and the slice still
\* holds the prediction made for Paris in the mount cycle
C19_Witness ==
  /\ kind = "map" /\ view.isPredicting /\ outcome["prediction"] = "pending"
  /\ view.prediction.temp = [tag |-> "some", v |-> 211]
  /\ view.location = "Cumberland"

\* the name reverse geocoding resolves for a coordinate, written out
ExpectedReverseName(c) ==
  IF c = Paris THEN "Paris" ELSE IF c = Sydney THEN "Cumberland" ELSE "Unknown Location"

TestAddresses ==
  [city : {"", "C"}, town : {"", "T"}, village : {"", "V"}, county : {"", "Y"},
   state : {"", "S"}]

PreferredName(a) ==
  IF a.city # "" THEN a.city
  ELSE IF a.town # "" THEN a.town
  ELSE IF a.village # "" THEN a.village
  ELSE IF a.county # "" THEN a.county
  ELSE IF a.state # "" THEN a.state
  ELSE "Unknown Location"

C21_PredictionMatchesDisplay ==
  (pc = "idle" /\ outcome["current"] = "ok" /\ outcome["prediction"] = "ok") =>
    LET cw == Val(currentWeather)
        shown == view.weatherData
    IN /\ shown.details.pressure = Some(Val(cw.main).pressure)
       /\ shown.temperature = Some(MathRound(Val(cw.main).temp))
       /\ shown.details.humidity = Some(Val(cw.main).humidity)
       /\ shown.details.windSpeed = Some(Val(cw.wind).speed)
       /\ view.prediction.condition = Some(shown.condition)

\* C22: in every reachable state of the Dashboard, if any lookup is in flight
\* or isPredicting is true then loading is true, so the loading screen is
\* what is rendered: the main view, with the search form, the map and the
\* "predicting" indicator, is rendered only when nothing is in flight and
\* isPredicting is false; and the lookups in flight belong to one cycle, one
\* request per service, all for the same coordinate.
C22_LoadingWhileInFlight ==
  /\ (inflight # {} \/ view.isPredicting \/ pc # "idle") =>
       view.loading /\ Rendered(view) = "loading"
  /\ Rendered(view) = "main" => inflight = {} /\ ~view.isPredicting
  /\ view.isPredicting => Rendered(view) # "main" /\ Rendered(view) # "error"
  /\ \A r1, r2 \in inflight :
       /\ r1.svc = r2.svc => r1 = r2
       /\ r1.coord = r2.coord

\* the prediction lookup of a cycle started by a map click is in flight
\* behind the loading screen, with isPredicting true
C22_Witness ==
  /\ kind = "map"
  /\ view.isPredicting
  /\ view.loading
  /\ \E r \in inflight : r.svc = "predict" /\ r.coord = Sydney

\* C23 (as claimed): after any completed location-changing action
\* (geolocation on mount, successful search, map click) whose lookups
\* succeeded, the stored coordinate (lat, lon), the map centre and the map
\* marker (selectedLocation), when set, all denote the coordinate for which
\* the weather slices were last fetched; the marker is never left at an
\* earlier coordinate.
C23_MarkerFollowsCoordinate ==
  (/\ pc = "idle"
   /\ outcome["current"] = "ok"
   /\ kind = "mount" => geo = "position"
   /\ kind \in {"mount", "map"} => outcome["place"] = "ok") =>
    LET c == Val(coord)
    IN /\ view.lat = Some(c[1])
       /\ view.lon = Some(c[2])
       /\ view.mapCenter = c
       /\ IsSome(view.selectedLocation) =>
            /\ Val(view.selectedLocation).latitude = c[1]
            /\ Val(view.selectedLocation).longitude = c[2]

\* C24 (as claimed): every navigation performed by a sign-in or logout
\* handler of Home, Auth and Dashboard (a step in which the handler's
\* signInWithPopup or signOut changes the auth state and the handler sends
\* the router to another location) targets one of the three routes the app
\* defines, so the user is on a defined route afterwards.
C24_HandlersNavigateToRoutes ==
  [][(authLog' # authLog /\ path' # path) => RouteOf(path') # "none"]_vars

====
